---- MODULE Spec2Model ----
(***************************************************************************)
(* Model of app.py, the Streamlit "Sensitivity & Scenario Analysis Tool".  *)
(*                                                                         *)
(* The script is re-run top to bottom whenever a widget changes.  Its      *)
(* state is the widget values plus the names the script binds while it     *)
(* runs.  All money amounts are Python floats, so the arithmetic below is  *)
(* IEEE-754 binary64 with round-to-nearest-even, computed on exact         *)
(* integers of arbitrary size (sequences of 15-bit limbs).                 *)
(***************************************************************************)
EXTENDS Integers, Sequences, FiniteSets, TLC

(***************************************************************************)
(* Natural numbers of arbitrary size: little-endian sequences of limbs in  *)
(* base 2^15, without leading zero limbs (zero is the empty sequence).     *)
(* Carries are computed by look-ahead rather than by recursion over the    *)
(* limbs.                                                                  *)
(***************************************************************************)
LimbBits == 15
Base == 32768

\* limbs of a binary64 mantissa
MantLimbs == 4

Limb(a, i) == IF i >= 1 /\ i <= Len(a) THEN a[i] ELSE 0

Zeros(n) == [i \in 1..n |-> 0] \o <<>>

\* the limbs f[1..n] as a number: leading zero limbs dropped
BigNorm(f, n) ==
    LET top == {i \in 1..n : f[i] # 0}
    IN  IF top = {} THEN <<>>
        ELSE SubSeq(f, 1, CHOOSE i \in top : \A j \in top : j <= i)

BigFromInt(n) ==
    BigNorm(<<n % Base, (n \div Base) % Base, n \div (Base * Base)>>, 3)

\* the sum of limb sequences whose limbs add to s[i] < 2 * Base, on n limbs
Carried(s, n) ==
    LET c(i) == \E j \in 1..(i - 1) :
                    /\ s[j] >= Base
                    /\ \A k \in (j + 1)..(i - 1) : s[k] >= Base - 1
    IN  BigNorm([i \in 1..n |-> (s[i] + (IF c(i) THEN 1 ELSE 0)) % Base], n)

BigAdd(a, b) ==
    IF a = <<>> THEN b
    ELSE IF b = <<>> THEN a
    ELSE
    LET n == (IF Len(a) > Len(b) THEN Len(a) ELSE Len(b)) + 1
        s == SubSeq([i \in 1..n |-> Limb(a, i) + Limb(b, i)], 1, n)
    IN  Carried(s, n)

\* a - b for a >= b
BigSub(a, b) ==
    IF b = <<>> THEN a
    ELSE IF a = b THEN <<>>
    ELSE
    LET n == Len(a)
        d == SubSeq([i \in 1..n |-> a[i] - Limb(b, i)], 1, n)
        w(i) == \E j \in 1..(i - 1) :
                    /\ d[j] < 0
                    /\ \A k \in (j + 1)..(i - 1) : d[k] <= 0
    IN  BigNorm([i \in 1..n |-> (d[i] - (IF w(i) THEN 1 ELSE 0)) % Base], n)

\* -1, 0 or 1 as a < b, a = b, a > b
BigCmp(a, b) ==
    IF Len(a) < Len(b) THEN -1
    ELSE IF Len(a) > Len(b) THEN 1
    ELSE LET diff == {i \in 1..Len(a) : a[i] # b[i]}
         IN  IF diff = {} THEN 0
             ELSE LET i == CHOOSE i \in diff : \A j \in diff : j <= i
                  IN  IF a[i] < b[i] THEN -1 ELSE 1

\* a * k for 0 <= k < Base
BigMulSmall(a, k) ==
    IF a = <<>> \/ k = 0 THEN <<>>
    ELSE IF k = 1 THEN a
    ELSE
    LET n == Len(a) + 1
        s == SubSeq([i \in 1..n |-> ((Limb(a, i) * k) % Base)
                                    + ((Limb(a, i - 1) * k) \div Base)], 1, n)
    IN  Carried(s, n)

\* a * Base^k
ShiftLimbs(a, k) == IF a = <<>> THEN <<>> ELSE Zeros(k) \o a

\* a * b for b of at most MantLimbs limbs
BigMul(a, b) ==
    IF a = <<>> \/ b = <<>> THEN <<>>
    ELSE BigAdd(BigAdd(BigMulSmall(a, Limb(b, 1)),
                       ShiftLimbs(BigMulSmall(a, Limb(b, 2)), 1)),
                BigAdd(ShiftLimbs(BigMulSmall(a, Limb(b, 3)), 2),
                       ShiftLimbs(BigMulSmall(a, Limb(b, 4)), 3)))

\* bits of a limb
BitLenSmall(x) == CHOOSE k \in 0..LimbBits : x < 2^k /\ (k = 0 \/ x >= 2^(k - 1))

BitLen(a) ==
    IF a = <<>> THEN 0
    ELSE (Len(a) - 1) * LimbBits + BitLenSmall(a[Len(a)])

\* a * 2^n
BigShl(a, n) ==
    IF a = <<>> THEN <<>>
    ELSE ShiftLimbs(BigMulSmall(a, 2^(n % LimbBits)), n \div LimbBits)

\* floor(a / 2^n)
BigShr(a, n) ==
    LET q == n \div LimbBits
        r == n % LimbBits
    IN  IF q >= Len(a) THEN <<>>
        ELSE BigNorm([i \in 1..(Len(a) - q) |->
                        (a[i + q] \div 2^r)
                        + (Limb(a, i + q + 1) % 2^r) * 2^(LimbBits - r)],
                     Len(a) - q)

\* bit i of a, bit 0 the least significant
Bit(a, i) == (Limb(a, i \div LimbBits + 1) \div 2^(i % LimbBits)) % 2

\* some bit below bit n of a is set
LowBitsSet(a, n) ==
    LET q == n \div LimbBits
        r == n % LimbBits
    IN  \/ \E i \in 1..q : Limb(a, i) # 0
        \/ Limb(a, q + 1) % 2^r # 0

\* number of trailing zero bits of a # 0
TrailingZeros(a) ==
    LET i == CHOOSE i \in 1..Len(a) : a[i] # 0 /\ \A j \in 1..(i - 1) : a[j] = 0
        z == CHOOSE k \in 0..(LimbBits - 1) :
                 a[i] % 2^k = 0 /\ a[i] % 2^(k + 1) # 0
    IN  (i - 1) * LimbBits + z

\* estimate of the limb floor(r2 / b) for r2 < b * Base from the top limbs,
\* b with the top bit of its top limb set: at most 2 too large
QHat(r2, b) ==
    LET n   == Len(b)
        est == (Limb(r2, n + 1) * Base + Limb(r2, n)) \div b[n]
    IN  IF est > Base - 1 THEN Base - 1 ELSE est

\* the limb floor(r2 / b) and the remainder, from an estimate q that is not
\* too small and p = b * q
RECURSIVE DivLimbFix(_, _, _, _)
DivLimbFix(r2, b, q, p) ==
    IF BigCmp(p, r2) <= 0 THEN [q |-> q, r |-> BigSub(r2, p)]
    ELSE DivLimbFix(r2, b, q - 1, BigSub(p, b))

\* one step of long division: the limb floor(r2 / b) and the remainder
DivLimb(r2, b) == DivLimbFix(r2, b, QHat(r2, b), BigMulSmall(b, QHat(r2, b)))

\* floor(r * Base^n / b) for r < b, as n limbs, with the remainder
RECURSIVE DivLimbs(_, _, _)
RECURSIVE DivLimbsAfter(_, _, _)
DivLimbs(r, b, n) ==
    IF n = 0 \/ r = <<>> THEN [q |-> Zeros(n), r |-> r]
    ELSE DivLimbsAfter(DivLimb(ShiftLimbs(r, 1), b), b, n)

\* the n limbs after a first step d
DivLimbsAfter(d, b, n) ==
    [DivLimbs(d.r, b, n - 1) EXCEPT !.q = @ \o <<d.q>>]

(***************************************************************************)
(* Python float: a finite binary64 value sign * m * 2^e, kept canonical    *)
(* (m odd, or m = 0 with sign 1 and e = 0) so that equal values are equal  *)
(* records, as == compares them.  Inputs are kept far from the overflow    *)
(* and subnormal ranges, where this representation would not apply.        *)
(***************************************************************************)
MantDig == 53

\* limbs of quotient computed by a division: MantDig bits and guard bits
QuotLimbs == 4

FZero == [s |-> 1, m |-> <<>>, e |-> 0]

Canon(s, m, e) ==
    IF m = <<>> THEN FZero
    ELSE LET z == TrailingZeros(m)
         IN  [s |-> s, m |-> BigShr(m, z), e |-> e + z]

\* round s * (m + sticky fraction) * 2^e to MantDig significant bits,
\* ties to even
Round(s, m, e, sticky) ==
    LET n == BitLen(m)
    IN  IF n <= MantDig THEN Canon(s, m, e)
        ELSE LET d    == n - MantDig
                 keep == BigShr(m, d)
                 half == Bit(m, d - 1) = 1
                 rest == sticky \/ LowBitsSet(m, d - 1)
                 up   == half /\ (rest \/ Bit(keep, 0) = 1)
             IN  Canon(s, IF up THEN BigAdd(keep, <<1>>) ELSE keep, e + d)

\* float(n) for a Python int n, |n| < 2^31
FromInt(n) ==
    IF n = 0 THEN FZero
    ELSE IF n < 0 THEN Canon(-1, BigFromInt(-n), 0)
    ELSE Canon(1, BigFromInt(n), 0)

FloatNeg(x) == IF x.m = <<>> THEN x ELSE [x EXCEPT !.s = -x.s]

FloatAbs(x) == [x EXCEPT !.s = 1]

FloatMul(x, y) ==
    IF x.m = <<>> \/ y.m = <<>> THEN FZero
    ELSE Round(x.s * y.s, BigMul(x.m, y.m), x.e + y.e, FALSE)

FloatAdd(x, y) ==
    IF x.m = <<>> THEN y
    ELSE IF y.m = <<>> THEN x
    ELSE LET e  == IF x.e < y.e THEN x.e ELSE y.e
             mx == BigShl(x.m, x.e - e)
             my == BigShl(y.m, y.e - e)
             c  == BigCmp(mx, my)
         IN  IF x.s = y.s THEN Round(x.s, BigAdd(mx, my), e, FALSE)
             ELSE IF c = 0 THEN FZero
             ELSE IF c > 0 THEN Round(x.s, BigSub(mx, my), e, FALSE)
             ELSE Round(y.s, BigSub(my, mx), e, FALSE)

FloatSub(x, y) == FloatAdd(x, FloatNeg(y))

\* what x / y yields for a zero y: Python raises ZeroDivisionError
ZeroDivisionError == [s |-> 0, m |-> <<>>, e |-> 0]

\* sign s, quotient of mantissas a / b with first bit q0 and further limbs
\* d, exponent e
DivRound(s, q0, d, e) ==
    Round(s, BigNorm(d.q \o <<q0>>, QuotLimbs + 1), e, d.r # <<>>)

\* a / b for mantissas filling the same number of limbs, b <= a < 2 * b or
\* a < b
DivAligned(s, a, b, e) ==
    IF BigCmp(a, b) >= 0
    THEN DivRound(s, 1, DivLimbs(BigSub(a, b), b, QuotLimbs), e)
    ELSE DivRound(s, 0, DivLimbs(a, b, QuotLimbs), e)

\* x / y for mantissas of lx and ly bits, both shifted to fill l limbs
DivShifted(x, y, lx, ly, l) ==
    DivAligned(x.s * y.s,
               BigShl(x.m, l * LimbBits - lx),
               BigShl(y.m, l * LimbBits - ly),
               x.e - y.e + lx - ly - QuotLimbs * LimbBits)

\* x / y for non-zero x and y with mantissas of lx and ly bits
DivNonZero(x, y, lx, ly) ==
    DivShifted(x, y, lx, ly,
               ((IF lx > ly THEN lx ELSE ly) + LimbBits - 1) \div LimbBits)

\* x / y
FloatDiv(x, y) ==
    IF y.m = <<>> THEN ZeroDivisionError
    ELSE IF x.m = <<>> THEN FZero
    ELSE DivNonZero(x, y, BitLen(x.m), BitLen(y.m))

\* -1, 0 or 1 as x < y, x = y, x > y
FloatCmp(x, y) ==
    LET d == IF x.m = <<>> THEN FloatNeg(y)
             ELSE IF y.m = <<>> THEN x
             ELSE IF x.s # y.s THEN x
             ELSE LET e  == IF x.e < y.e THEN x.e ELSE y.e
                      c  == BigCmp(BigShl(x.m, x.e - e), BigShl(y.m, y.e - e))
                  IN  [s |-> x.s * c, m |-> IF c = 0 THEN <<>> ELSE <<1>>, e |-> 0]
    IN  IF d.m = <<>> THEN 0 ELSE IF d.s > 0 THEN 1 ELSE -1

RECURSIVE BigPow(_, _)
BigPow(a, n) == IF n = 0 THEN <<1>> ELSE BigMul(BigPow(a, n - 1), a)

\* x ** n for a float x > 0 and an int n >= 1: the exact power, rounded once
FloatPow(x, n) ==
    IF x.m = <<>> THEN FZero ELSE Round(1, BigPow(x.m, n), x.e * n, FALSE)

\* a list, with its elements evaluated
List(f) == f \o <<>>

\* the float written as the decimal literal cents/100, e.g. 0.5 or 20.0
Dec(cents) == FloatDiv(FromInt(cents), FromInt(100))

\* sum(xs): left to right from the int 0, each addition rounded (CPython up
\* to 3.11; later versions compensate the rounding errors of the additions,
\* which can change the last bits of a sum)
RECURSIVE SumTo(_, _)
SumTo(xs, n) == IF n = 0 THEN FZero ELSE FloatAdd(SumTo(xs, n - 1), xs[n])

Sum(xs) == SumTo(xs, Len(xs))

\* Linspace with endpoint=False: num steps of (stop - start) / num, the stop
\* value left out
LinspaceNoEndpoint(start, stop, num) ==
    LET delta == FloatSub(FromInt(stop), FromInt(start))
        step  == FloatDiv(delta, FromInt(num))
    IN  List([k \in 1..num |->
                FloatAdd(FloatMul(FromInt(k - 1), step), FromInt(start))])

(***************************************************************************)
(* numpy.linspace(start, stop, num) for int start, stop and num >= 2, with *)
(* the default endpoint=True: step = (stop - start) / (num - 1), element i *)
(* is i * step + start (or i / (num - 1) * delta + start when the step is  *)
(* 0), and the last element is set to stop.                                *)
(***************************************************************************)
Linspace(start, stop, num) ==
    LET div   == FromInt(num - 1)
        delta == FloatSub(FromInt(stop), FromInt(start))
        step  == FloatDiv(delta, div)
        y(i)  == IF step = FZero
                 THEN FloatMul(FloatDiv(FromInt(i), div), delta)
                 ELSE FloatMul(FromInt(i), step)
    IN  List([k \in 1..num |->
                IF k = num THEN FromInt(stop)
                ELSE FloatAdd(y(k - 1), FromInt(start))])

(***************************************************************************)
(* The script.                                                             *)
(***************************************************************************)
VARIABLES
    sales_units,            \* int, number_input
    price_per_unit,         \* float, number_input
    variable_cost_per_unit, \* float, number_input
    fixed_cost,             \* float, number_input
    tax_rate,               \* int, slider
    initial_investment,     \* float, number_input
    discount_pct,           \* int, value of the discount rate slider
    years,                  \* int, number_input
    sensitivity_range,      \* int, slider
    sensitivity_steps,      \* int, slider
    scenario,               \* radio
    custom,                 \* the four Custom Scenario number_inputs (int)
    base,                   \* names bound by the base calculations
    sensitivity_results,    \* rows appended by the sensitivity loop
    scen,                   \* names bound by the scenario analysis
    pc,                     \* the section of the script that runs next
    edits                   \* widget changes made in this session

widgets == <<sales_units, price_per_unit, variable_cost_per_unit, fixed_cost,
             tax_rate, initial_investment, discount_pct, years,
             sensitivity_range, sensitivity_steps, scenario, custom>>

vars == <<sales_units, price_per_unit, variable_cost_per_unit, fixed_cost,
          tax_rate, initial_investment, discount_pct, years,
          sensitivity_range, sensitivity_steps, scenario, custom,
          base, sensitivity_results, scen, pc, edits>>

\* widget changes explored in one session
MaxEdits == 2

factors == <<"Sales", "Price", "Variable Cost", "Fixed Cost">>

Scenarios == {"Base Case", "Best Case", "Worst Case", "Custom Scenario"}

\* a name the script has not bound yet in this run
NotRun == "not run"

\* discount_rate = st.slider(...) / 100
discount_rate == FloatDiv(FromInt(discount_pct), FromInt(100))

\* exponents whose powers are tabulated
PowTabulated == 5

\* (1 + p/100)**i for the slider positions p and the tabulated exponents; the
\* power is a function of p and i alone, so it is computed once
PowTable ==
    List([p \in 1..20 |->
        List([i \in 1..PowTabulated |->
            FloatPow(FloatAdd(FromInt(1), FloatDiv(FromInt(p), FromInt(100))),
                     i)])])

\* DiscountFactor with the enumerate index used as the exponent: i instead
\* of i+1, so that the first year is not discounted
DiscountFactorFromZero(i) ==
    IF i = 1 THEN FromInt(1)
    ELSE FloatPow(FloatAdd(FromInt(1), discount_rate), i - 1)

\* (1 + discount_rate)**i
DiscountFactor(i) ==
    IF discount_pct \in 1..20 /\ i <= PowTabulated
    THEN PowTable[discount_pct][i]
    ELSE FloatPow(FloatAdd(FromInt(1), discount_rate), i)

\* Discounted with every flow discounted by one year only
DiscountedOneYear(cash_flows) ==
    List([i \in 1..Len(cash_flows) |->
            FloatDiv(cash_flows[i], DiscountFactor(1))])

\* [cf / (1 + discount_rate)**(i+1) for i, cf in enumerate(cash_flows)]
Discounted(cash_flows) ==
    List([i \in 1..Len(cash_flows) |->
            FloatDiv(cash_flows[i], DiscountFactor(i))])

\* 1 + pct/100 for a float pct
Factor(pct) == FloatAdd(FromInt(1), FloatDiv(pct, FromInt(100)))

\* The statements of a section are applied one after the other to the
\* record r of the names bound so far.

\* lines 34-35
BaseRevenue ==
    [revenue |-> FloatMul(FromInt(sales_units), price_per_unit),
     total_variable_cost |->
         FloatMul(FromInt(sales_units), variable_cost_per_unit)]

\* line 36
BaseEbit(r) ==
    r @@ [ebit |-> FloatSub(FloatSub(r.revenue, r.total_variable_cost),
                            fixed_cost)]

\* line 37
BaseTaxPaid(r) ==
    r @@ [tax_paid |->
            IF FloatCmp(r.ebit, FZero) > 0
            THEN FloatMul(r.ebit, FloatDiv(FromInt(tax_rate), FromInt(100)))
            ELSE FZero]

\* line 38
BaseNetIncome(r) == r @@ [net_income |-> FloatSub(r.ebit, r.tax_paid)]

\* line 41
BaseCashFlows(r) == r @@ [cash_flows |-> List([i \in 1..years |-> r.net_income])]

\* line 42
BaseDiscounted(r) ==
    r @@ [discounted_cash_flows |-> Discounted(r.cash_flows)]

\* line 43
BaseNPV(r) ==
    r @@ [npv |-> FloatSub(Sum(r.discounted_cash_flows), initial_investment)]

BaseResult ==
    BaseNPV(BaseDiscounted(BaseCashFlows(BaseNetIncome(BaseTaxPaid(
        BaseEbit(BaseRevenue))))))

\* lines 105-110 and, word for word, lines 190-195: the financials
\* recalculated from adj_sales, adj_price, adj_vc and adj_fc

\* lines 105, 190
AdjRevenue(r) == r @@ [adj_revenue |-> FloatMul(r.adj_sales, r.adj_price)]

\* lines 106, 191
AdjEbit(r) ==
    r @@ [adj_ebit |->
            FloatSub(FloatSub(r.adj_revenue, FloatMul(r.adj_sales, r.adj_vc)),
                     r.adj_fc)]

\* lines 107, 192
AdjNetIncome(r) ==
    r @@ [adj_net_income |->
            IF FloatCmp(r.adj_ebit, FZero) > 0
            THEN FloatMul(r.adj_ebit,
                     FloatSub(FromInt(1),
                              FloatDiv(FromInt(tax_rate), FromInt(100))))
            ELSE r.adj_ebit]

\* lines 108, 193
AdjCashFlows(r) ==
    r @@ [adj_cash_flows |-> List([i \in 1..years |-> r.adj_net_income])]

\* lines 109, 194
AdjDiscounted(r) ==
    r @@ [adj_discounted_cash_flows |-> Discounted(r.adj_cash_flows)]

\* lines 110, 195
AdjNPV(r) ==
    r @@ [adj_npv |-> FloatSub(Sum(r.adj_discounted_cash_flows),
                               initial_investment)]

Recalculated(r) ==
    AdjNPV(AdjDiscounted(AdjCashFlows(AdjNetIncome(AdjEbit(AdjRevenue(r))))))

\* lines 83-102: the change is applied to the current factor only; f is
\* 1 + pct_change/100
AdjustedFactor(factor, pct_change, f) ==
    [Factor |-> factor,
     Change |-> pct_change,
     adj_sales |-> IF factor = "Sales"
                   THEN FloatMul(FromInt(sales_units), f)
                   ELSE FromInt(sales_units),
     adj_price |-> IF factor = "Price"
                   THEN FloatMul(price_per_unit, f)
                   ELSE price_per_unit,
     adj_vc    |-> IF factor = "Variable Cost"
                   THEN FloatMul(variable_cost_per_unit, f)
                   ELSE variable_cost_per_unit,
     adj_fc    |-> IF factor \notin {"Sales", "Price", "Variable Cost"}
                   THEN FloatMul(fixed_cost, f)
                   ELSE fixed_cost]

\* lines 112-116: the row appended (with the adjusted values it was computed
\* from)
Appended(r) == r @@ [NPV |-> r.adj_npv]

\* one pass of the sensitivity loop body, for a factor and a float pct_change
SensitivityRow(factor, pct_change) ==
    Appended(Recalculated(
        AdjustedFactor(factor, pct_change, Factor(pct_change))))

\* the rows in the order the nested loops append them
SensitivityRows ==
    LET grid == Linspace(-sensitivity_range, sensitivity_range,
                         sensitivity_steps)
        n    == sensitivity_steps
    IN  List([k \in 1..(Len(factors) * n) |->
                SensitivityRow(factors[((k - 1) \div n) + 1],
                               grid[((k - 1) % n) + 1])])

\* the dict {"Sales": s, "Price": p, "Variable Cost": vc, "Fixed Cost": fc}
ChangesOf(s, p, vc, fc) ==
    ("Sales" :> s) @@ ("Price" :> p) @@ ("Variable Cost" :> vc)
        @@ ("Fixed Cost" :> fc)

\* Changes with the presets of the Best Case and the Worst Case exchanged
ChangesExchanged ==
    IF scenario = "Best Case"
    THEN ChangesOf(-15, -5, 10, 10)
    ELSE IF scenario = "Worst Case"
    THEN ChangesOf(20, 10, -10, -5)
    ELSE IF scenario = "Custom Scenario"
    THEN custom
    ELSE ChangesOf(0, 0, 0, 0)

\* the percentage changes of the selected scenario
Changes ==
    IF scenario = "Best Case"
    THEN ChangesOf(20, 10, -10, -5)
    ELSE IF scenario = "Worst Case"
    THEN ChangesOf(-15, -5, 10, 10)
    ELSE IF scenario = "Custom Scenario"
    THEN custom
    ELSE ChangesOf(0, 0, 0, 0)

\* 1 + c/100 for an int c
IntFactor(c) == FloatAdd(FromInt(1), FloatDiv(FromInt(c), FromInt(100)))

\* the label of the "Profitability Change" metric
ProfitabilityLabel(adj_npv, npv) ==
    IF FloatCmp(adj_npv, npv) > 0 THEN "Improved" ELSE "Worsened"

\* ProfitabilityDelta dividing by npv instead of abs(npv)
ProfitabilityDeltaSigned(adj_npv, npv) ==
    IF npv # FZero
    THEN [text |-> "pct",
          value |-> FloatMul(FloatDiv(FloatSub(adj_npv, npv), npv),
                             FromInt(100))]
    ELSE [text |-> "N/A", value |-> FZero]

\* q * 100, unless the division that gave q raised
Percent(q) == IF q = ZeroDivisionError THEN q ELSE FloatMul(q, FromInt(100))

\* the delta of the "Profitability Change" metric: N/A, or the percentage
\* that the f-string formats
ProfitabilityDelta(adj_npv, npv) ==
    IF npv # FZero
    THEN [text |-> "pct",
          value |-> Percent(FloatDiv(FloatSub(adj_npv, npv), FloatAbs(npv)))]
    ELSE [text |-> "N/A", value |-> FZero]

\* lines 184-187
ScenarioFactors(changes) ==
    [changes |-> changes,
     adj_sales |-> FloatMul(FromInt(sales_units), IntFactor(changes["Sales"])),
     adj_price |-> FloatMul(price_per_unit, IntFactor(changes["Price"])),
     adj_vc |-> FloatMul(variable_cost_per_unit,
                         IntFactor(changes["Variable Cost"])),
     adj_fc |-> FloatMul(fixed_cost, IntFactor(changes["Fixed Cost"]))]

\* lines 201-208
ScenarioMetrics(r) ==
    r @@ [npv_delta |-> FloatSub(r.adj_npv, base.npv),
          label |-> ProfitabilityLabel(r.adj_npv, base.npv),
          delta |-> ProfitabilityDelta(r.adj_npv, base.npv)]

ScenarioResult == ScenarioMetrics(Recalculated(ScenarioFactors(Changes)))

Init ==
    /\ sales_units = 1000
    /\ price_per_unit = Dec(5000)
    /\ variable_cost_per_unit = Dec(2000)
    /\ fixed_cost = Dec(500000)
    /\ tax_rate = 20
    /\ initial_investment = Dec(2000000)
    /\ discount_pct = 10
    /\ years = 5
    /\ sensitivity_range = 20
    /\ sensitivity_steps = 5
    /\ scenario = "Base Case"
    /\ custom = ChangesOf(0, 0, 0, 0)
    /\ base = NotRun
    /\ sensitivity_results = NotRun
    /\ scen = NotRun
    /\ pc = "base"
    /\ edits = 0

\* lines 34-43
BaseCalculations ==
    /\ pc = "base"
    /\ base' = BaseResult
    /\ pc' = "sensitivity"
    /\ UNCHANGED <<widgets, sensitivity_results, scen, edits>>

\* lines 77-116
SensitivityAnalysis ==
    /\ pc = "sensitivity"
    /\ sensitivity_results' = SensitivityRows
    /\ pc' = "scenario"
    /\ UNCHANGED <<widgets, base, scen, edits>>

\* lines 150-208
ScenarioAnalysis ==
    /\ pc = "scenario"
    /\ scen' = ScenarioResult
    /\ pc' = "ready"
    /\ UNCHANGED <<widgets, base, sensitivity_results, edits>>

\* a widget changed: Streamlit runs the script again from the top
Rerun ==
    /\ pc = "ready"
    /\ edits < MaxEdits
    /\ edits' = edits + 1
    /\ pc' = "base"
    /\ base' = NotRun
    /\ sensitivity_results' = NotRun
    /\ scen' = NotRun

\* line 17: number_input(min_value=1), an int
SetSalesUnits(v) ==
    /\ Rerun
    /\ v >= 1
    /\ v # sales_units
    /\ sales_units' = v
    /\ UNCHANGED <<price_per_unit, variable_cost_per_unit, fixed_cost, tax_rate,
                   initial_investment, discount_pct, years, sensitivity_range,
                   sensitivity_steps, scenario, custom>>

\* line 18: number_input(min_value=0.0)
SetPricePerUnit(v) ==
    /\ Rerun
    /\ FloatCmp(v, FZero) >= 0
    /\ v # price_per_unit
    /\ price_per_unit' = v
    /\ UNCHANGED <<sales_units, variable_cost_per_unit, fixed_cost, tax_rate,
                   initial_investment, discount_pct, years, sensitivity_range,
                   sensitivity_steps, scenario, custom>>

\* line 21: number_input(min_value=0.0)
SetVariableCostPerUnit(v) ==
    /\ Rerun
    /\ FloatCmp(v, FZero) >= 0
    /\ v # variable_cost_per_unit
    /\ variable_cost_per_unit' = v
    /\ UNCHANGED <<sales_units, price_per_unit, fixed_cost, tax_rate,
                   initial_investment, discount_pct, years, sensitivity_range,
                   sensitivity_steps, scenario, custom>>

\* line 22: number_input(min_value=0.0)
SetFixedCost(v) ==
    /\ Rerun
    /\ FloatCmp(v, FZero) >= 0
    /\ v # fixed_cost
    /\ fixed_cost' = v
    /\ UNCHANGED <<sales_units, price_per_unit, variable_cost_per_unit, tax_rate,
                   initial_investment, discount_pct, years, sensitivity_range,
                   sensitivity_steps, scenario, custom>>

\* line 26: slider(min_value=0, max_value=50, step=1)
SetTaxRate(v) ==
    /\ Rerun
    /\ v >= 0 /\ v <= 50
    /\ v # tax_rate
    /\ tax_rate' = v
    /\ UNCHANGED <<sales_units, price_per_unit, variable_cost_per_unit, fixed_cost,
                   initial_investment, discount_pct, years, sensitivity_range,
                   sensitivity_steps, scenario, custom>>

\* line 27: number_input(min_value=0.0)
SetInitialInvestment(v) ==
    /\ Rerun
    /\ FloatCmp(v, FZero) >= 0
    /\ v # initial_investment
    /\ initial_investment' = v
    /\ UNCHANGED <<sales_units, price_per_unit, variable_cost_per_unit, fixed_cost,
                   tax_rate, discount_pct, years, sensitivity_range,
                   sensitivity_steps, scenario, custom>>

\* line 30: slider(min_value=1, max_value=20, step=1)
SetDiscountRate(v) ==
    /\ Rerun
    /\ v >= 1 /\ v <= 20
    /\ v # discount_pct
    /\ discount_pct' = v
    /\ UNCHANGED <<sales_units, price_per_unit, variable_cost_per_unit, fixed_cost,
                   tax_rate, initial_investment, years, sensitivity_range,
                   sensitivity_steps, scenario, custom>>

\* line 31: number_input(min_value=1), an int
SetYears(v) ==
    /\ Rerun
    /\ v >= 1
    /\ v # years
    /\ years' = v
    /\ UNCHANGED <<sales_units, price_per_unit, variable_cost_per_unit, fixed_cost,
                   tax_rate, initial_investment, discount_pct, sensitivity_range,
                   sensitivity_steps, scenario, custom>>

\* line 72: slider(0, 50, 20, 5)
SetSensitivityRange(v) ==
    /\ Rerun
    /\ v >= 0 /\ v <= 50 /\ v % 5 = 0
    /\ v # sensitivity_range
    /\ sensitivity_range' = v
    /\ UNCHANGED <<sales_units, price_per_unit, variable_cost_per_unit, fixed_cost,
                   tax_rate, initial_investment, discount_pct, years,
                   sensitivity_steps, scenario, custom>>

\* line 74: slider(3, 11, 5, 2)
SetSensitivitySteps(v) ==
    /\ Rerun
    /\ v >= 3 /\ v <= 11 /\ (v - 3) % 2 = 0
    /\ v # sensitivity_steps
    /\ sensitivity_steps' = v
    /\ UNCHANGED <<sales_units, price_per_unit, variable_cost_per_unit, fixed_cost,
                   tax_rate, initial_investment, discount_pct, years,
                   sensitivity_range, scenario, custom>>

\* line 150: radio
SelectScenario(v) ==
    /\ Rerun
    /\ v \in Scenarios
    /\ v # scenario
    /\ scenario' = v
    /\ UNCHANGED <<sales_units, price_per_unit, variable_cost_per_unit, fixed_cost,
                   tax_rate, initial_investment, discount_pct, years,
                   sensitivity_range, sensitivity_steps, custom>>

\* lines 170-173: number_input(value=0, step=1) without bounds, shown only
\* for the Custom Scenario
SetCustomChange(f, v) ==
    /\ Rerun
    /\ scenario = "Custom Scenario"
    /\ v # custom[f]
    /\ custom' = [custom EXCEPT ![f] = v]
    /\ UNCHANGED <<sales_units, price_per_unit, variable_cost_per_unit, fixed_cost,
                   tax_rate, initial_investment, discount_pct, years,
                   sensitivity_range, sensitivity_steps, scenario>>

\* the values typed into or dragged to in the explored sessions; the
\* widgets refuse those outside their limits
SalesUnitsTyped == {0, 1, 1000}
PriceTyped == {Dec(-50), FZero, Dec(5000)}
VariableCostTyped == {Dec(-50), Dec(2000), Dec(6000)}
FixedCostTyped == {Dec(-10000), Dec(500000), Dec(3000000)}
TaxRateTyped == {-1, 20, 41, 51}
InvestmentTyped == {Dec(-10000), FZero, Dec(2000000), FloatPow(FromInt(10), 30)}
DiscountTyped == {0, 1, 10, 21}
YearsTyped == {0, 1, 5}
RangeTyped == {0, 20, 22, 50, 55}
StepsTyped == {1, 3, 4, 5}
CustomTyped == {-150, 0, 10}

Next ==
    \/ BaseCalculations
    \/ SensitivityAnalysis
    \/ ScenarioAnalysis
    \/ \E v \in SalesUnitsTyped : SetSalesUnits(v)
    \/ \E v \in PriceTyped : SetPricePerUnit(v)
    \/ \E v \in VariableCostTyped : SetVariableCostPerUnit(v)
    \/ \E v \in FixedCostTyped : SetFixedCost(v)
    \/ \E v \in TaxRateTyped : SetTaxRate(v)
    \/ \E v \in InvestmentTyped : SetInitialInvestment(v)
    \/ \E v \in DiscountTyped : SetDiscountRate(v)
    \/ \E v \in YearsTyped : SetYears(v)
    \/ \E v \in RangeTyped : SetSensitivityRange(v)
    \/ \E v \in StepsTyped : SetSensitivitySteps(v)
    \/ \E v \in Scenarios : SelectScenario(v)
    \/ \E f \in DOMAIN custom, v \in CustomTyped : SetCustomChange(f, v)

Spec == Init /\ [][Next]_vars

\* every position of the two sensitivity sliders
RangePositions == {5 * k : k \in 0..10}
StepsPositions == {3 + 2 * k : k \in 0..4}

\* sessions in which only the sensitivity sliders are moved
NextSweep ==
    \/ BaseCalculations
    \/ SensitivityAnalysis
    \/ ScenarioAnalysis
    \/ \E v \in RangePositions : SetSensitivityRange(v)
    \/ \E v \in StepsPositions : SetSensitivitySteps(v)

SpecSweep == Init /\ [][NextSweep]_vars

(***************************************************************************)
(* Properties.                                                             *)
(***************************************************************************)

\* the eight base inputs hold the values the widgets start with
AtDefaults ==
    /\ sales_units = 1000
    /\ price_per_unit = Dec(5000)
    /\ variable_cost_per_unit = Dec(2000)
    /\ fixed_cost = Dec(500000)
    /\ tax_rate = 20
    /\ initial_investment = Dec(2000000)
    /\ discount_pct = 10
    /\ years = 5

\* x rounds to the amount of that many cents: |x - cents/100| <= 0.005
WithinCent(x, cents) ==
    FloatCmp(FloatAbs(FloatSub(x, Dec(cents))),
             FloatDiv(FromInt(5), FromInt(1000))) <= 0

\* the base figures other than the NPV for the default inputs
ExampleFigures ==
    /\ base.revenue = FromInt(50000)
    /\ base.ebit = FromInt(25000)
    /\ base.tax_paid = FromInt(5000)
    /\ base.net_income = FromInt(20000)

\* C1, as the spec states it: for the default inputs revenue = 50000,
\* ebit = 25000, tax_paid = 5000, net_income = 20000 and npv = 35815.74 to
\* the cent.
C1_ExampleNPV35815 ==
    (pc # "base" /\ AtDefaults) =>
        ExampleFigures /\ WithinCent(base.npv, 3581574)

\* C1, amended: for the default inputs revenue = 50000, ebit = 25000,
\* tax_paid = 5000, net_income = 20000 and npv = 55815.74 to the cent.
C1_ExampleNPV55815 ==
    (pc # "base" /\ AtDefaults) =>
        ExampleFigures /\ WithinCent(base.npv, 5581574)

C1_Witness ==
    pc = "ready" /\ AtDefaults /\ base.net_income = FromInt(20000)

InvestmentComparable ==
    FloatCmp(initial_investment,
             FloatMul(FloatPow(FromInt(2), 40),
                      FloatAdd(base.revenue, fixed_cost))) <= 0

C3_BaseCaseReproducesBase ==
    (pc = "ready" /\ scenario = "Base Case") =>
        /\ scen.adj_revenue = base.revenue
        /\ scen.adj_ebit = base.ebit
        /\ scen.adj_net_income = base.net_income
        /\ scen.adj_npv = base.npv

\* C4: each of the four factors has a sensitivity row whose change is
\* exactly 0, and the NPV of that row equals the base NPV.
C4_ZeroChangeRowIsBase ==
    pc = "ready" =>
        \A f \in {"Sales", "Price", "Variable Cost", "Fixed Cost"} :
            \E k \in DOMAIN sensitivity_results :
                /\ sensitivity_results[k].Factor = f
                /\ sensitivity_results[k].Change = FZero
                /\ sensitivity_results[k].NPV = base.npv

\* -1, 0 or 1 as x is negative, zero or positive
Sign(x) == FloatCmp(x, FZero)

\* C5: the percentage delta is "N/A" exactly when the base NPV is 0, and no
\* division by zero is attempted; otherwise it is
\* (adj_npv - npv) / |npv| * 100, whose sign is the sign of adj_npv - npv
\* also when npv is negative.
C5_DeltaGuard ==
    pc = "ready" =>
        /\ scen.delta.value # ZeroDivisionError
        /\ (base.npv = FZero) <=> (scen.delta.text = "N/A")
        /\ base.npv # FZero =>
            /\ scen.delta.value =
                 FloatMul(FloatDiv(FloatSub(scen.adj_npv, base.npv),
                                   FloatAbs(base.npv)), FromInt(100))
            /\ Sign(scen.delta.value) = FloatCmp(scen.adj_npv, base.npv)

C5_Witness ==
    /\ pc = "ready"
    /\ base.npv = FZero
    /\ scen.delta.text = "N/A"

\* net income in the form of the base calculations: ebit - ebit * rate/100
\* when ebit > 0, ebit otherwise
TaxPaidForm(ebit) ==
    IF FloatCmp(ebit, FZero) > 0
    THEN FloatSub(ebit,
             FloatMul(ebit, FloatDiv(FromInt(tax_rate), FromInt(100))))
    ELSE ebit

\* C6: tax is paid only on a positive EBIT: tax_paid = ebit * rate/100 when
\* ebit > 0 and 0 otherwise, net_income = ebit - tax_paid; and the adjusted
\* net income of every sensitivity row and of the scenario agrees with that
\* form.
C6_TaxFormsAgree ==
    pc = "ready" =>
        /\ base.tax_paid =
              IF FloatCmp(base.ebit, FZero) > 0
              THEN FloatMul(base.ebit,
                            FloatDiv(FromInt(tax_rate), FromInt(100)))
              ELSE FZero
        /\ base.net_income = FloatSub(base.ebit, base.tax_paid)
        /\ scen.adj_net_income = TaxPaidForm(scen.adj_ebit)
        /\ \A k \in DOMAIN sensitivity_results :
              sensitivity_results[k].adj_net_income =
                  TaxPaidForm(sensitivity_results[k].adj_ebit)

RECURSIVE PresentValue(_, _, _)
\* cf / growth[1] + ... + cf / growth[n], added in that order
PresentValue(cf, growth, n) ==
    IF n = 0 THEN FZero
    ELSE FloatAdd(PresentValue(cf, growth, n - 1), FloatDiv(cf, growth[n]))

\* C7: in the base, sensitivity and scenario NPV the cash flows are a
\* sequence of length years whose every element is the net income; the NPV
\* is the sum over i = 1..years of flow / (1 + discount_rate)^i minus the
\* initial investment, which is subtracted once and never scaled.
C7_NPVStructure ==
    pc = "ready" =>
        LET growth == List([i \in 1..years |->
                        FloatPow(FloatAdd(FromInt(1), discount_rate), i)])
            NPVOf(net_income) ==
                FloatSub(PresentValue(net_income, growth, years),
                         initial_investment)
            Level(cash_flows, net_income) ==
                /\ Len(cash_flows) = years
                /\ \A i \in 1..years : cash_flows[i] = net_income
        IN  /\ Level(base.cash_flows, base.net_income)
            /\ base.npv = NPVOf(base.net_income)
            /\ Level(scen.adj_cash_flows, scen.adj_net_income)
            /\ scen.adj_npv = NPVOf(scen.adj_net_income)
            /\ \A k \in DOMAIN sensitivity_results :
                  LET row == sensitivity_results[k]
                  IN  /\ Level(row.adj_cash_flows, row.adj_net_income)
                      /\ row.NPV = NPVOf(row.adj_net_income)

C7_Witness ==
    /\ pc = "ready"
    /\ years = 5
    /\ scenario = "Best Case"
    /\ Len(scen.adj_cash_flows) = 5
    /\ FloatCmp(scen.adj_npv, scen.adj_net_income) > 0

\* C8: the sweep holds 4 * N rows, N for each factor in the order Sales,
\* Price, Variable Cost, Fixed Cost; the changes of a factor run from -R to
\* +R, never decrease and are evenly spaced; only the factor of a row is
\* multiplied by 1 + change/100, the other three keep their base values, and
\* the row is computed with the base tax rate, discount rate, years and
\* initial investment.
C8_SweepGrid ==
    pc = "ready" =>
        LET n == sensitivity_steps
            R == sensitivity_range
            growth == List([i \in 1..years |->
                        FloatPow(FloatAdd(FromInt(1), discount_rate), i)])
            keep == FloatSub(FromInt(1),
                             FloatDiv(FromInt(tax_rate), FromInt(100)))
            order == <<"Sales", "Price", "Variable Cost", "Fixed Cost">>
            spacing == FloatDiv(FromInt(2 * R), FromInt(n - 1))
            tiny == FloatDiv(FromInt(1), FromInt(1000000000))
            row(j, k) == sensitivity_results[(j - 1) * n + k]
        IN  /\ Len(sensitivity_results) = 4 * n
            /\ \A j \in 1..4 :
                /\ \A k \in 1..n : row(j, k).Factor = order[j]
                /\ row(j, 1).Change = FromInt(-R)
                /\ row(j, n).Change = FromInt(R)
                /\ \A k \in 1..(n - 1) :
                    /\ FloatCmp(row(j, k).Change, row(j, k + 1).Change) <= 0
                    /\ FloatCmp(
                          FloatAbs(FloatSub(
                              FloatSub(row(j, k + 1).Change, row(j, k).Change),
                              spacing)),
                          tiny) <= 0
                /\ \A k \in 1..n :
                    LET r == row(j, k)
                        scaled(x) == FloatMul(x, Factor(r.Change))
                    IN  /\ r.adj_sales =
                              IF j = 1 THEN scaled(FromInt(sales_units))
                              ELSE FromInt(sales_units)
                        /\ r.adj_price =
                              IF j = 2 THEN scaled(price_per_unit)
                              ELSE price_per_unit
                        /\ r.adj_vc =
                              IF j = 3 THEN scaled(variable_cost_per_unit)
                              ELSE variable_cost_per_unit
                        /\ r.adj_fc =
                              IF j = 4 THEN scaled(fixed_cost)
                              ELSE fixed_cost
                        /\ r.adj_net_income =
                              IF FloatCmp(r.adj_ebit, FZero) > 0
                              THEN FloatMul(r.adj_ebit, keep)
                              ELSE r.adj_ebit
                        /\ Len(r.adj_cash_flows) = years
                        /\ r.NPV =
                              FloatSub(PresentValue(r.adj_net_income, growth,
                                                    years),
                                       initial_investment)

C8_Witness ==
    /\ pc = "ready"
    /\ sensitivity_steps = 11
    /\ sensitivity_range = 50
    /\ Len(sensitivity_results) = 44
    /\ sensitivity_results[12].Factor = "Price"
    /\ sensitivity_results[12].Change = FromInt(-50)

\* C9: in every computation the sales figure is strictly positive and the
\* price, the variable cost and the fixed cost are non-negative: the base
\* inputs, every sensitivity row and the scenario, Custom deltas included.
C9_QuantitiesValid ==
    pc = "ready" =>
        LET Valid(s, p, vc, fc) ==
                /\ FloatCmp(s, FZero) > 0
                /\ FloatCmp(p, FZero) >= 0
                /\ FloatCmp(vc, FZero) >= 0
                /\ FloatCmp(fc, FZero) >= 0
        IN  /\ Valid(FromInt(sales_units), price_per_unit,
                     variable_cost_per_unit, fixed_cost)
            /\ Valid(scen.adj_sales, scen.adj_price, scen.adj_vc, scen.adj_fc)
            /\ \A k \in DOMAIN sensitivity_results :
                  Valid(sensitivity_results[k].adj_sales,
                        sensitivity_results[k].adj_price,
                        sensitivity_results[k].adj_vc,
                        sensitivity_results[k].adj_fc)

\* C10: the label is "Improved" exactly when adj_npv > npv and "Worsened"
\* otherwise, also when the delta is "N/A"; for the Base Case scenario and
\* for a Custom Scenario with all four changes 0 it is "Worsened".
C10_LabelRule ==
    pc = "ready" =>
        /\ scen.label = IF FloatCmp(scen.adj_npv, base.npv) > 0
                        THEN "Improved" ELSE "Worsened"
        /\ (\/ scenario = "Base Case"
            \/ (scenario = "Custom Scenario"
                    /\ \A f \in DOMAIN custom : custom[f] = 0)) =>
                scen.label = "Worsened"

====
